---- MODULE Spec2Model ----
(***************************************************************************)
(* Model of src/main.rs: the Zomato order orchestrator, its three per-user *)
(* registries (notification, payment, cart), the restaurant catalog and    *)
(* the rider matching service.                                             *)
(*                                                                         *)
(* Option<T> is modelled as a sequence of length <= 1: <<>> is None and    *)
(* <<x>> is Some(x).  A HashMap keyed by user id is a function over Users  *)
(* whose value is the Option of the entry.  A cart and a menu are          *)
(* functions whose DOMAIN is the set of item ids present.                  *)
(***************************************************************************)
EXTENDS Integers, Sequences, FiniteSets, TLC

\* ---------------------------------------------------------------- bounds
MaxRiders == 2
MaxCoord == 2
MaxQty == 2
MaxBalance == 3
SqrtScale == 64

\* f64::MAX, the initial min_d of match_rider: above every distance
F64_MAX == 1000000

Users == {1, 2}
ItemIds == {"i1", "i2"}
RestaurantIds == {"r1"}
Coords == 0..MaxCoord
Locations == Coords \X Coords
None == <<>>
Some(x) == <<x>>

\* User.location of the two users main builds: user 1 at (1,2), user 2 at
\* (1,3); users are owned by the caller and never mutated
UserLocation(u) == <<1, u + 1>>

\* Item.price of the items the caller builds menus from
ItemPrice == [i \in ItemIds |-> IF i = "i1" THEN 1 ELSE 2]

\* the menus a Restaurant is constructed with
Menus == { [i \in S |-> ItemPrice[i]] : S \in {{"i1"}, {"i1", "i2"}} }

VARIABLES nm, pm, cm, restaurants, riders, last, claimed

vars == <<nm, pm, cm, restaurants, riders, last, claimed>>

\* ------------------------------------------------------------- geometry
\* f64 sqrt, kept as a fixed-point number with SqrtScale units per 1.0
Sqrt(n) == CHOOSE r \in 0..(SqrtScale * (n + 1)) :
              /\ r * r <= n * SqrtScale * SqrtScale
              /\ (r + 1) * (r + 1) > n * SqrtScale * SqrtScale

SqrtTable == [n \in 0..(2 * (MaxCoord + 1) * (MaxCoord + 1)) |-> Sqrt(n)]

distance_to(self, other) ==
    LET dx == self[1] - other[1]
        dy == self[2] - other[2]
    IN  SqrtTable[dx * dx + dy * dy]

\* ---------------------------------------------------------------- riders
Rider_new(id) ==
    [id |-> id, location |-> None, target_location |-> None, is_available |-> TRUE]

\* update that also marks the rider available again
Rider_update_free(rider, location) ==
    [rider EXCEPT !.location = Some(location), !.is_available = TRUE]

Rider_update(rider, location) == [rider EXCEPT !.location = Some(location)]

\* accept_ride that marks the rider unavailable without recording the target
accept_ride_notarget(rider, target_location) ==
    [rider EXCEPT !.is_available = FALSE]

\* accept_ride that records the target but leaves the rider available
accept_ride_noflip(rider, target_location) ==
    [rider EXCEPT !.target_location = Some(target_location)]

accept_ride(rider, target_location) ==
    [rider EXCEPT !.target_location = Some(target_location), !.is_available = FALSE]

\* the filter of match_rider without its is_available test
RECURSIVE AvailableFrom_all(_, _)
AvailableFrom_all(rs, i) ==
    IF i > Len(rs) THEN <<>> ELSE <<i>> \o AvailableFrom_all(rs, i + 1)

\* the filter of match_rider: indices of the riders that pass, in vector order
RECURSIVE AvailableFrom(_, _)
AvailableFrom(rs, i) ==
    IF i > Len(rs) THEN <<>>
    ELSE IF rs[i].is_available THEN <<i>> \o AvailableFrom(rs, i + 1)
    ELSE AvailableFrom(rs, i + 1)

available_riders(rs) == AvailableFrom(rs, 1)

\* the for loop of match_rider with c <= min_d: the last of equal distances wins
RECURSIVE ScanMin_tie(_, _, _, _, _, _)
ScanMin_tie(rs, av, k, target, min_idx, min_d) ==
    IF k > Len(av) THEN min_idx
    ELSE LET rider == rs[av[k]]
         IN  IF rider.location # None
             THEN LET c == distance_to(rider.location[1], target)
                  IN  IF c <= min_d
                      THEN ScanMin_tie(rs, av, k + 1, target, av[k], c)
                      ELSE ScanMin_tie(rs, av, k + 1, target, min_idx, min_d)
             ELSE ScanMin_tie(rs, av, k + 1, target, min_idx, min_d)

\* the for loop of match_rider leaving the loop at the first unlocated rider
RECURSIVE ScanMin_stop(_, _, _, _, _, _)
ScanMin_stop(rs, av, k, target, min_idx, min_d) ==
    IF k > Len(av) THEN min_idx
    ELSE LET rider == rs[av[k]]
         IN  IF rider.location # None
             THEN LET c == distance_to(rider.location[1], target)
                  IN  IF c < min_d
                      THEN ScanMin_stop(rs, av, k + 1, target, av[k], c)
                      ELSE ScanMin_stop(rs, av, k + 1, target, min_idx, min_d)
             ELSE min_idx

\* the for loop of match_rider over available_riders[k..], carrying (min_idx, min_d)
RECURSIVE ScanMin(_, _, _, _, _, _)
ScanMin(rs, av, k, target, min_idx, min_d) ==
    IF k > Len(av) THEN min_idx
    ELSE LET rider == rs[av[k]]
         IN  IF rider.location # None
             THEN LET c == distance_to(rider.location[1], target)
                  IN  IF c < min_d
                      THEN ScanMin(rs, av, k + 1, target, av[k], c)
                      ELSE ScanMin(rs, av, k + 1, target, min_idx, min_d)
             ELSE ScanMin(rs, av, k + 1, target, min_idx, min_d)

\* RiderMatchingService::match_rider: [ok, idx, riders]
match_rider(rs, target) ==
    LET av == available_riders(rs)
    IN  IF av = <<>>
        THEN [ok |-> FALSE, idx |-> 0, riders |-> rs]
        ELSE LET min_idx == ScanMin(rs, av, 1, target, av[1], F64_MAX)
             IN  [ok |-> TRUE, idx |-> min_idx,
                  riders |-> [rs EXCEPT ![min_idx] = accept_ride(rs[min_idx], target)]]

\* --------------------------------------------------------------- payment
\* pay without the balance check
pay_nocheck(balance, amount) ==
    [ok |-> TRUE, balance |-> balance - amount, ret |-> balance - amount]

\* pay returning the balance it found instead of the new one
pay_oldret(balance, amount) ==
    IF balance >= amount
    THEN [ok |-> TRUE, balance |-> balance - amount, ret |-> balance]
    ELSE [ok |-> FALSE, balance |-> balance, ret |-> 0]

\* pay that wants the balance above the amount
pay_strict(balance, amount) ==
    IF balance > amount
    THEN [ok |-> TRUE, balance |-> balance - amount, ret |-> balance - amount]
    ELSE [ok |-> FALSE, balance |-> balance, ret |-> 0]

\* Gpay::pay on a balance: [ok, balance, ret]
pay(balance, amount) ==
    IF balance >= amount
    THEN [ok |-> TRUE, balance |-> balance - amount, ret |-> balance - amount]
    ELSE [ok |-> FALSE, balance |-> balance, ret |-> 0]

\* ------------------------------------------------------------------ cart
EmptyCart == [i \in {} |-> 0]

Cart_add(items, item) ==
    [i \in DOMAIN items \cup {item} |->
        IF i = item THEN (IF item \in DOMAIN items THEN items[item] ELSE 0) + 1
        ELSE items[i]]

\* remove that decrements whatever the quantity is
Cart_remove_zero(items, item) ==
    IF item \in DOMAIN items
    THEN [items EXCEPT ![item] = items[item] - 1]
    ELSE items

Cart_remove(items, item) ==
    IF item \in DOMAIN items
    THEN IF items[item] > 1
         THEN [items EXCEPT ![item] = items[item] - 1]
         ELSE [i \in DOMAIN items \ {item} |-> items[i]]
    ELSE items

\* clear that leaves the entries in place
Cart_clear_keep(items) == items

Cart_clear(items) == EmptyCart

\* ------------------------------------------------------------- billing
\* the map/sum of process_order with the quantity left out of a line
RECURSIVE SumEntries_noqty(_, _, _)
SumEntries_noqty(items, menu, S) ==
    IF S = {} THEN 0
    ELSE LET item_id == CHOOSE x \in S : TRUE
             line == IF item_id \in DOMAIN menu THEN menu[item_id] ELSE 0
         IN  line + SumEntries_noqty(items, menu, S \ {item_id})

\* the map/sum of process_order adding price and quantity instead of multiplying
RECURSIVE SumEntries_plus(_, _, _)
SumEntries_plus(items, menu, S) ==
    IF S = {} THEN 0
    ELSE LET item_id == CHOOSE x \in S : TRUE
             line == IF item_id \in DOMAIN menu THEN menu[item_id] + items[item_id] ELSE 0
         IN  line + SumEntries_plus(items, menu, S \ {item_id})

\* the map/sum of process_order over the cart entries
RECURSIVE SumEntries(_, _, _)
SumEntries(items, menu, S) ==
    IF S = {} THEN 0
    ELSE LET item_id == CHOOSE x \in S : TRUE
             line == IF item_id \in DOMAIN menu THEN menu[item_id] * items[item_id] ELSE 0
         IN  line + SumEntries(items, menu, S \ {item_id})

total_of(items, menu) == SumEntries(items, menu, DOMAIN items)

\* ----------------------------------------------------------------- state
\* last: the most recent call and what it returned (op, user, result; the
\* rider index a match returned, the balance a pay returned, and the
\* arguments amount and target).  claimed[i]: the callers rider i was
\* returned to, in order (0 for a direct match_rider call).  For a cart or
\* registry call, arg is the item or instance passed and old the registry
\* entry the call found.
Call(op, user, result, rider, ret, amount, target) ==
    [op |-> op, user |-> user, result |-> result, rider |-> rider, ret |-> ret,
     amount |-> amount, target |-> target, arg |-> None, old |-> None]

\* a call that returns nothing, with its argument and the entry it found
CallArg(op, user, arg, old) ==
    [Call(op, user, "Ok", 0, 0, 0, None) EXCEPT !.arg = Some(arg), !.old = old]

NoCall == Call("none", 0, "Ok", 0, 0, 0, None)

\* Zomato::new()
Init ==
    /\ nm = [u \in Users |-> None]
    /\ pm = [u \in Users |-> None]
    /\ cm = [u \in Users |-> None]
    /\ restaurants = [r \in RestaurantIds |-> None]
    /\ riders = <<>>
    /\ last = NoCall
    /\ claimed = <<>>

\* attach that keeps the instance already stored for the user
Registry_attach_keep(map, u, x) ==
    IF map[u] = None THEN [map EXCEPT ![u] = Some(x)] ELSE map

\* attach of the three managers: HashMap::insert under the user's id
Registry_attach(map, u, x) == [map EXCEPT ![u] = Some(x)]

\* get of the three managers: HashMap::get_mut under the user's id
Registry_get(map, u) == map[u]

\* NotificationManager::attach with an Email
AttachNotification(u) ==
    /\ nm' = Registry_attach(nm, u, "email")
    /\ last' = NoCall
    /\ UNCHANGED <<pm, cm, restaurants, riders, claimed>>

\* PaymentManager::attach with Gpay::new(_, b)
AttachPayment(u, b) ==
    /\ pm' = Registry_attach(pm, u, b)
    /\ last' = NoCall
    /\ UNCHANGED <<nm, cm, restaurants, riders, claimed>>

\* Zomato::add_restaurant
AddRestaurant(r, menu) ==
    /\ restaurants' = [restaurants EXCEPT ![r] = Some(menu)]
    /\ last' = NoCall
    /\ UNCHANGED <<nm, pm, cm, riders, claimed>>

\* RiderMatchingService::push of a rider built by Rider::new and, when loc is
\* Some, Rider::update
Push(loc) ==
    /\ Len(riders) < MaxRiders
    /\ LET fresh == Rider_new(Len(riders) + 1)
       IN  riders' = Append(riders, IF loc = None THEN fresh ELSE Rider_update(fresh, loc[1]))
    /\ claimed' = Append(claimed, <<>>)
    /\ last' = NoCall
    /\ UNCHANGED <<nm, pm, cm, restaurants>>

\* Rider::update on a rider of the pool
Update(i, loc) ==
    /\ i \in 1..Len(riders)
    /\ riders' = [riders EXCEPT ![i] = Rider_update(riders[i], loc)]
    /\ last' = NoCall
    /\ UNCHANGED <<nm, pm, cm, restaurants, claimed>>

\* RiderMatchingService::match_rider called on the service
MatchRider(target) ==
    LET m == match_rider(riders, target)
    IN  /\ riders' = m.riders
        /\ last' = Call("match_rider", 0, IF m.ok THEN "Ok" ELSE "RiderError", m.idx, 0, 0, Some(target))
        /\ claimed' = IF m.ok THEN [claimed EXCEPT ![m.idx] = Append(@, 0)] ELSE claimed
        /\ UNCHANGED <<nm, pm, cm, restaurants>>

\* PaymentInstrument::pay called on a user's account
Pay(u, amount) ==
    /\ pm[u] # None
    /\ LET p == pay(pm[u][1], amount)
       IN  /\ pm' = [pm EXCEPT ![u] = Some(p.balance)]
           /\ last' = Call("pay", u, IF p.ok THEN "Ok" ELSE "PaymentError", 0, p.ret, amount, None)
    /\ UNCHANGED <<nm, cm, restaurants, riders, claimed>>

\* add_to_cart that puts the item into every user's cart
AddToCart_everyone(u, item) ==
    /\ \A v \in Users : (cm[v] # None /\ item \in DOMAIN cm[v][1]) => cm[v][1][item] < MaxQty
    /\ cm' = [v \in Users |-> Some(Cart_add(IF cm[v] # None THEN cm[v][1] ELSE EmptyCart, item))]
    /\ last' = CallArg("add_to_cart", u, item, None)
    /\ UNCHANGED <<nm, pm, restaurants, riders, claimed>>

\* Zomato::add_to_cart
AddToCart(u, item) ==
    /\ LET cart == IF cm[u] # None THEN cm[u][1] ELSE EmptyCart
       IN  /\ (item \in DOMAIN cart => cart[item] < MaxQty)
           /\ cm' = [cm EXCEPT ![u] = Some(Cart_add(cart, item))]
    /\ last' = CallArg("add_to_cart", u, item, None)
    /\ UNCHANGED <<nm, pm, restaurants, riders, claimed>>

\* CartInstrument::remove on the cart CartManager::get returns
RemoveFromCart(u, item) ==
    /\ cm[u] # None
    /\ cm' = [cm EXCEPT ![u] = Some(Cart_remove(cm[u][1], item))]
    /\ last' = CallArg("remove", u, item, cm[u])
    /\ UNCHANGED <<nm, pm, restaurants, riders, claimed>>

\* CartInstrument::clear on the cart CartManager::get returns
ClearCart(u) ==
    /\ cm[u] # None
    /\ cm' = [cm EXCEPT ![u] = Some(Cart_clear(cm[u][1]))]
    /\ last' = CallArg("clear", u, "all", cm[u])
    /\ UNCHANGED <<nm, pm, restaurants, riders, claimed>>

\* the value process_order returns, as recorded in last
Order(u, result, rider) == Call("process_order", u, result, rider, 0, 0, None)

\* Zomato::process_order
ProcessOrder(u, restaurant_id) ==
    IF cm[u] = None
    THEN /\ last' = Order(u, "OrderError", 0)
         /\ UNCHANGED <<nm, pm, cm, restaurants, riders, claimed>>
    ELSE IF restaurants[restaurant_id] = None
    THEN /\ last' = Order(u, "OrderError", 0)
         /\ UNCHANGED <<nm, pm, cm, restaurants, riders, claimed>>
    ELSE LET total == total_of(cm[u][1], restaurants[restaurant_id][1])
         IN  IF pm[u] = None
             THEN /\ last' = Order(u, "PaymentError", 0)
                  /\ UNCHANGED <<nm, pm, cm, restaurants, riders, claimed>>
             ELSE LET p == pay(pm[u][1], total)
                  IN  IF ~p.ok
                      THEN /\ last' = Order(u, "PaymentError", 0)
                           /\ pm' = [pm EXCEPT ![u] = Some(p.balance)]
                           /\ UNCHANGED <<nm, cm, restaurants, riders, claimed>>
                      ELSE LET m == match_rider(riders, UserLocation(u))
                           IN  /\ pm' = [pm EXCEPT ![u] = Some(p.balance)]
                               /\ riders' = m.riders
                               /\ IF ~m.ok
                                  THEN /\ last' = Order(u, "RiderError", 0)
                                       /\ UNCHANGED <<nm, cm, restaurants, claimed>>
                                  ELSE /\ claimed' = [claimed EXCEPT ![m.idx] = Append(@, u)]
                                       /\ IF nm[u] = None
                                          THEN /\ last' = Order(u, "NotificationError", m.idx)
                                               /\ UNCHANGED <<nm, cm, restaurants>>
                                          ELSE /\ cm' = [cm EXCEPT ![u] = Some(Cart_clear(cm[u][1]))]
                                               /\ last' = Order(u, "Ok", m.idx)
                                               /\ UNCHANGED <<nm, restaurants>>

\* ------------------------------------------------------- specifications
\* the orchestrator used by two users, with one item and one rider position
LeanMenu == [i \in {"i1"} |-> ItemPrice[i]]

Next ==
    \/ \E u \in Users : AttachNotification(u)
    \/ \E u \in Users, b \in 0..MaxBalance : AttachPayment(u, b)
    \/ AddRestaurant("r1", LeanMenu)
    \/ Push(Some(<<1, 0>>))
    \/ MatchRider(UserLocation(1))
    \/ \E u \in Users : AddToCart(u, "i1")
    \/ \E u \in Users : ProcessOrder(u, "r1")

Spec == Init /\ [][Next]_vars

\* the rider pool alone: every position, located and unlocated riders
NextPool ==
    \/ \E loc \in {None} \cup {Some(l) : l \in Locations} : Push(loc)
    \/ \E i \in 1..MaxRiders, loc \in Locations : Update(i, loc)
    \/ \E u \in Users : MatchRider(UserLocation(u))

SpecPool == Init /\ [][NextPool]_vars

\* the orchestrator used by one user, with every cart, menu and balance
MaxTotal == MaxQty * (ItemPrice["i1"] + ItemPrice["i2"])

NextBilling ==
    \/ AttachNotification(1)
    \/ \E b \in 0..MaxTotal : AttachPayment(1, b)
    \/ \E menu \in Menus : AddRestaurant("r1", menu)
    \/ Push(Some(<<1, 0>>))
    \/ \E item \in ItemIds : AddToCart(1, item)
    \/ \E item \in ItemIds : RemoveFromCart(1, item)
    \/ ClearCart(1)
    \/ \E a \in 0..(MaxTotal + 1) : Pay(1, a)
    \/ ProcessOrder(1, "r1")

SpecBilling == Init /\ [][NextBilling]_vars

\* ------------------------------------------------------------ registries
Registries == {"notification", "payment", "cart"}

\* the instances attached: an Email, a Gpay with a balance, a Cart::new()
Instances(reg) ==
    IF reg = "notification" THEN {"a@mail", "b@mail"}
    ELSE IF reg = "payment" THEN 0..MaxBalance
    ELSE {EmptyCart}

AttachOp == [reg \in Registries |-> IF reg = "notification" THEN "attach_notification"
                                    ELSE IF reg = "payment" THEN "attach_payment"
                                    ELSE "attach_cart"]

GetOp == [reg \in Registries |-> IF reg = "notification" THEN "get_notification"
                                 ELSE IF reg = "payment" THEN "get_payment"
                                 ELSE "get_cart"]

\* NotificationManager::attach, PaymentManager::attach, CartManager::attach
Attach(reg, u, x) ==
    /\ nm' = IF reg = "notification" THEN Registry_attach(nm, u, x) ELSE nm
    /\ pm' = IF reg = "payment" THEN Registry_attach(pm, u, x) ELSE pm
    /\ cm' = IF reg = "cart" THEN Registry_attach(cm, u, x) ELSE cm
    /\ last' = CallArg(AttachOp[reg], u, x,
                       IF reg = "notification" THEN nm[u] ELSE IF reg = "payment" THEN pm[u] ELSE cm[u])
    /\ UNCHANGED <<restaurants, riders, claimed>>

\* NotificationManager::get, PaymentManager::get, CartManager::get; the
\* Option returned is recorded in last.old
Get(reg, u) ==
    /\ last' = CallArg(GetOp[reg], u, "get",
                       IF reg = "notification" THEN Registry_get(nm, u)
                       ELSE IF reg = "payment" THEN Registry_get(pm, u)
                       ELSE Registry_get(cm, u))
    /\ UNCHANGED <<nm, pm, cm, restaurants, riders, claimed>>

NextRegistry ==
    \/ \E reg \in Registries, u \in Users : \E x \in Instances(reg) : Attach(reg, u, x)
    \/ \E reg \in Registries, u \in Users : Get(reg, u)
    \/ \E u \in Users : AddToCart(u, "i1")

SpecRegistry == Init /\ [][NextRegistry]_vars

\* main up to its first process_order: the restaurant with items 1 (12) and
\* 2 (14), users 1 and 2 with a channel and balances 100 and 150, riders r1
\* at (2,2) and r2 at (3,3), and items 1 and 2 added to user 1's cart
MainMenu == [i \in ItemIds |-> IF i = "i1" THEN 12 ELSE 14]

InitMain ==
    /\ nm = [u \in Users |-> Some("email")]
    /\ pm = [u \in Users |-> IF u = 1 THEN Some(100) ELSE Some(150)]
    /\ cm = [u \in Users |-> IF u = 1 THEN Some(Cart_add(Cart_add(EmptyCart, "i1"), "i2")) ELSE None]
    /\ restaurants = [r \in RestaurantIds |-> Some(MainMenu)]
    /\ riders = <<Rider_update(Rider_new(1), <<2, 2>>), Rider_update(Rider_new(2), <<3, 3>>)>>
    /\ last = CallArg("add_to_cart", 1, "i2", None)
    /\ claimed = <<<<>>, <<>>>>

\* main from there on: the two orders and user 2's additions of item 1, in
\* any order and number
NextMain ==
    \/ \E u \in Users : ProcessOrder(u, "r1")
    \/ AddToCart(2, "i1")

SpecMain == InitMain /\ [][NextMain]_vars

\* ---------------------------------------------------------------- claims
\* a step that is a process_order call, and the user it was made for
IsOrder == last'.op = "process_order"

\* rider i of pool rs is available and has a known location
Eligible(rs, i) == rs[i].is_available /\ rs[i].location # None

\* squared Euclidean distance, exact
DistSq(a, b) == (a[1] - b[1]) * (a[1] - b[1]) + (a[2] - b[2]) * (a[2] - b[2])

\* the bill as the spec states it: price x quantity units of the cart
\* entries that the menu resolves
Bill(items, menu) ==
    Cardinality({ <<i, q, p>> \in ItemIds \X (1..MaxQty) \X (1..MaxTotal) :
                    /\ i \in DOMAIN items /\ i \in DOMAIN menu
                    /\ q <= items[i] /\ p <= menu[i] })

\* C1: a process_order call whose payment capture succeeded and whose rider
\* match failed returns RiderError and leaves the user's balance as it was
\* before the call (the captured total is refunded).
C1_NoRiderCompensation ==
    [][(IsOrder /\ last'.result = "RiderError") => pm'[last'.user] = pm[last'.user]]_vars

\* C2: the rider match_rider returns was available and located immediately
\* before the call, and when every available rider has no location the call
\* fails with RiderError and claims no rider.
C2_Exclusion ==
    [][last'.op = "match_rider" =>
        /\ (last'.result = "Ok" => Eligible(riders, last'.rider))
        /\ ((\A i \in 1..Len(riders) : riders[i].is_available => riders[i].location = None)
              => (last'.result = "RiderError" /\ riders' = riders))]_vars

\* C3: when some rider is available and located, match_rider returns an
\* available located rider at minimal distance from the target, and the
\* earliest pushed one among those at that distance.
C3_Nearest ==
    [][(last'.op = "match_rider" /\ \E i \in 1..Len(riders) : Eligible(riders, i)) =>
        /\ last'.result = "Ok"
        /\ last'.rider \in 1..Len(riders)
        /\ Eligible(riders, last'.rider)
        /\ \A j \in 1..Len(riders) : Eligible(riders, j) =>
              LET dr == DistSq(riders[last'.rider].location[1], last'.target[1])
                  dj == DistSq(riders[j].location[1], last'.target[1])
              IN  dr < dj \/ (dr = dj /\ last'.rider <= j)]_vars

\* C3 witness: two riders at different positions equally far from the target
\* were both available, and the match returned the first
C3_Witness ==
    /\ last.op = "match_rider" /\ last.result = "Ok" /\ last.rider = 1
    /\ Len(riders) >= 2
    /\ riders[2].is_available
    /\ riders[1].location # None /\ riders[2].location # None
    /\ riders[1].location # riders[2].location
    /\ DistSq(riders[1].location[1], last.target[1]) = DistSq(riders[2].location[1], last.target[1])

\* C4: no rider is returned by two successful matches, over any sequence of
\* match_rider and process_order calls.
C4_Exclusive == \A i \in 1..Len(claimed) : Len(claimed[i]) <= 1

\* C4 witness: a match was made after another rider had already been claimed
C4_Witness ==
    /\ last.op \in {"match_rider", "process_order"}
    /\ last.rider # 0
    /\ \E i \in 1..Len(claimed) : i # last.rider /\ Len(claimed[i]) = 1

\* no rider has been obtained by two different users
NoSharedRider ==
    \A i \in 1..Len(claimed) : \A a, b \in 1..Len(claimed[i]) :
        claimed[i][a] = claimed[i][b] \/ claimed[i][a] = 0 \/ claimed[i][b] = 0

\* C5: a rider turns unavailable exactly in the step whose match selected it,
\* and two order placements by different users never obtain the same rider.
C5_AtomicClaim ==
    [][/\ \A i \in 1..Len(riders) :
             (riders[i].is_available /\ ~riders'[i].is_available)
                <=> (last'.op \in {"match_rider", "process_order"} /\ last'.rider = i)
       /\ NoSharedRider']_vars

\* C5 witness: both users placed an order and each obtained a rider
C5_Witness ==
    /\ Len(claimed) = 2
    /\ \E u, v \in Users : u # v /\ claimed[1] = <<u>> /\ claimed[2] = <<v>>

\* C6: a process_order call that returns an error leaves the user's cart as
\* it was, and one that returns success leaves it empty.
C6_CartClear ==
    [][IsOrder =>
        IF last'.result = "Ok"
        THEN cm'[last'.user] = Some(EmptyCart)
        ELSE cm'[last'.user] = cm[last'.user]]_vars

\* C6 witness: an order failed at its last fallible step with a non-empty cart
C6_Witness ==
    /\ last.op = "process_order" /\ last.result = "NotificationError"
    /\ cm[last.user] # None /\ cm[last.user][1] # EmptyCart

\* C7: process_order asks the account for the sum of menu price x quantity
\* over the cart entries on the menu (entries off the menu count 0 and do
\* not abort): the capture fails exactly when the balance is below that sum
\* and otherwise lowers the balance by exactly that sum.
C7_Billing ==
    [][(IsOrder /\ cm[last'.user] # None /\ restaurants["r1"] # None /\ pm[last'.user] # None) =>
        LET u == last'.user
            bill == Bill(cm[u][1], restaurants["r1"][1])
        IN  IF pm[u][1] < bill
            THEN last'.result = "PaymentError" /\ pm' = pm
            ELSE /\ last'.result \notin {"OrderError", "PaymentError"}
                 /\ pm'[u] = Some(pm[u][1] - bill)]_vars

\* C7 witness: an order was paid for a cart holding two of an item on the
\* menu and an item that is not on the menu
C7_Witness ==
    /\ last.op = "process_order" /\ last.result \in {"RiderError", "NotificationError"}
    /\ cm[1] # None /\ restaurants["r1"] # None
    /\ "i2" \in DOMAIN cm[1][1] /\ "i2" \notin DOMAIN restaurants["r1"][1]
    /\ "i1" \in DOMAIN cm[1][1] /\ cm[1][1]["i1"] = 2

\* C8: an order whose payment and rider match succeeded stands when the
\* notification step fails: process_order returns success and the cart is
\* cleared.
C8_NotificationNonFatal ==
    (last.op = "process_order" /\ last.rider # 0) =>
        (last.result = "Ok" /\ cm[last.user] = Some(EmptyCart))

\* C9: process_order returns OrderError without a cart or a restaurant, and
\* otherwise PaymentError without an account or with a balance below the
\* total; in these cases no balance, rider or cart changes.
C9_EarlyAbort ==
    [][IsOrder =>
        LET u == last'.user
            early == cm[u] = None \/ restaurants["r1"] = None
            unpaid == ~early /\ (pm[u] = None \/ pm[u][1] < Bill(cm[u][1], restaurants["r1"][1]))
        IN  /\ early => last'.result = "OrderError"
            /\ unpaid => last'.result = "PaymentError"
            /\ (early \/ unpaid) =>
                 /\ pm' = pm /\ cm' = cm /\ riders' = riders
                 /\ claimed' = claimed /\ nm' = nm /\ restaurants' = restaurants]_vars

\* C9 witness: an order was refused for insufficient funds while a rider was
\* available
C9_Witness ==
    /\ last.op = "process_order" /\ last.result = "PaymentError"
    /\ pm[last.user] # None /\ pm[last.user][1] > 0
    /\ \E i \in 1..Len(riders) : Eligible(riders, i)

\* every attached account has a balance of at least zero
BalanceNonNegative == \A u \in Users : pm[u] # None => pm[u][1] >= 0

\* C10: pay(a) on balance b >= a sets the balance to b - a and returns it;
\* with b < a it fails with PaymentError and leaves b; the balance is never
\* below zero.
C10_Pay ==
    [][/\ last'.op = "pay" =>
            LET u == last'.user
                b == pm[u][1]
                a == last'.amount
            IN  IF b >= a
                THEN last'.result = "Ok" /\ pm'[u] = Some(b - a) /\ last'.ret = b - a
                ELSE last'.result = "PaymentError" /\ pm'[u] = Some(b)
       /\ BalanceNonNegative']_vars

\* C10 witness: a payment of a positive amount succeeded and left money
C10_Witness ==
    /\ last.op = "pay" /\ last.result = "Ok" /\ last.amount > 0
    /\ pm[last.user] = Some(last.ret) /\ last.ret > 0

\* C11: when the pool holds a rider that is available and located,
\* match_rider succeeds with a located rider, however many available
\* riders without a location precede it.
C11_UnlocatedSkipped ==
    [][(last'.op = "match_rider" /\ \E i \in 1..Len(riders) : Eligible(riders, i)) =>
        /\ last'.result = "Ok"
        /\ riders[last'.rider].location # None
        /\ \A i \in 1..Len(riders) :
              (riders[i].is_available /\ riders[i].location = None) => riders'[i] = riders[i]]_vars

\* C11 witness: the first rider is available without a location and the
\* match returned a later rider
C11_Witness ==
    /\ last.op = "match_rider" /\ last.result = "Ok" /\ last.rider > 1
    /\ riders[1].is_available /\ riders[1].location = None

\* the number of successful matches so far
RECURSIVE Claims(_)
Claims(i) == IF i = 0 THEN 0 ELSE Len(claimed[i]) + Claims(i - 1)

TotalClaims == Claims(Len(claimed))

\* C12: a rider enters the pool available and without a target, a location
\* update leaves availability alone, an unavailable rider stays unavailable,
\* at most as many matches succeed as the pool has riders, and a match on a
\* pool with no available rider fails with RiderError.
C12_Lifecycle ==
    [][/\ Len(riders') > Len(riders) =>
            /\ riders'[Len(riders')].is_available
            /\ riders'[Len(riders')].target_location = None
       /\ \A i \in 1..Len(riders) :
            /\ ~riders[i].is_available => ~riders'[i].is_available
            /\ riders'[i].location # riders[i].location
                 => riders'[i].is_available = riders[i].is_available
       /\ TotalClaims' <= Len(riders')
       /\ (last'.op = "match_rider" /\ \A i \in 1..Len(riders) : ~riders[i].is_available)
            => (last'.result = "RiderError" /\ riders' = riders)]_vars

\* C12 witness: every rider of a full pool is claimed and a further match
\* failed
C12_Witness ==
    /\ last.op = "match_rider" /\ last.result = "RiderError"
    /\ Len(riders) = MaxRiders
    /\ \A i \in 1..Len(riders) : ~riders[i].is_available
    /\ TotalClaims = MaxRiders

\* the quantity of an item in a cart registry entry, 0 when not in the cart
Qty(entry, item) ==
    IF entry # None /\ item \in DOMAIN entry[1] THEN entry[1][item] ELSE 0

\* every item present in a cart has a quantity of at least one
CartQuantities ==
    \A u \in Users : cm[u] # None => \A i \in DOMAIN cm[u][1] : cm[u][1][i] >= 1

\* C13: every item in a cart has quantity >= 1; add raises the item's
\* quantity by exactly one, remove lowers it by one and deletes the entry at
\* quantity one, remove of an absent item changes nothing, and no other item
\* is touched; an item is in the cart exactly when its quantity is positive.
C13_CartQuantity ==
    [][/\ CartQuantities'
       /\ last'.op \in {"add_to_cart", "remove"} =>
            LET u == last'.user
                item == last'.arg[1]
                q == Qty(cm[u], item)
            IN  /\ cm'[u] # None
                /\ Qty(cm'[u], item) = IF last'.op = "add_to_cart" THEN q + 1
                                       ELSE IF q > 1 THEN q - 1 ELSE 0
                /\ item \in DOMAIN cm'[u][1] <=> Qty(cm'[u], item) >= 1
                /\ \A j \in ItemIds \ {item} :
                      /\ Qty(cm'[u], j) = Qty(cm[u], j)
                      /\ j \in DOMAIN cm'[u][1] <=> (cm[u] # None /\ j \in DOMAIN cm[u][1])]_vars

\* C13 witness: remove found the item at quantity one and deleted the entry,
\* leaving the other item in the cart
C13_Witness ==
    /\ last.op = "remove"
    /\ Qty(last.old, last.arg[1]) = 1
    /\ last.arg[1] \notin DOMAIN cm[last.user][1]
    /\ cm[last.user][1] # EmptyCart

\* the state main has set up when user 1 places the first order
MainSetup ==
    /\ cm[1] = Some([i \in ItemIds |-> 1])
    /\ pm[1] = Some(100) /\ nm[1] # None
    /\ restaurants["r1"] = Some(MainMenu)
    /\ Len(riders) = 2
    /\ riders[1].location = Some(<<2, 2>>) /\ riders[1].is_available
    /\ riders[2].location = Some(<<3, 3>>) /\ riders[2].is_available

\* C14: from main's setup (user 1 at (1,2), balance 100, a channel, cart of
\* item 1 (12) x1 and item 2 (14) x1, both on the menu, riders r1 at (2,2)
\* and r2 at (3,3) available), process_order succeeds, pays 26, claims r1 and
\* not r2, and leaves balance 74 and an empty cart.
C14_EndToEnd ==
    [][(MainSetup /\ IsOrder /\ last'.user = 1) =>
        /\ last'.result = "Ok"
        /\ last'.rider = 1
        /\ ~riders'[1].is_available /\ riders'[1].target_location = Some(<<1, 2>>)
        /\ riders'[2] = riders[2]
        /\ pm'[1] = Some(74) /\ pm[1][1] - pm'[1][1] = 26
        /\ cm'[1] = Some(EmptyCart)]_vars

\* C14 witness: user 1's order went through first
C14_Witness ==
    /\ last.op = "process_order" /\ last.user = 1 /\ last.result = "Ok" /\ last.rider = 1
    /\ claimed = <<<<1>>, <<>>>>
    /\ pm[1] = Some(74) /\ cm[1] = Some(EmptyCart)
    /\ riders[2].is_available

\* the three registries of a state, by name
RegistryNamed(reg, n, p, c) ==
    IF reg = "notification" THEN n ELSE IF reg = "payment" THEN p ELSE c

\* C15: a registry holds one instance per user; attach(user, y) makes
\* get(user) return y whatever was attached before, and changes no other
\* user's entry and no other registry; get returns the entry unchanged; a
\* user has no entry until an attach (or, for the cart, add_to_cart) for
\* that user.
C15_Registry ==
    [][\A reg \in Registries :
         LET before == RegistryNamed(reg, nm, pm, cm)
             after == RegistryNamed(reg, nm', pm', cm')
         IN  /\ last'.op = AttachOp[reg] =>
                  /\ after[last'.user] = last'.arg
                  /\ \A v \in Users \ {last'.user} : after[v] = before[v]
                  /\ \A other \in Registries \ {reg} :
                        RegistryNamed(other, nm', pm', cm') = RegistryNamed(other, nm, pm, cm)
             /\ last'.op = GetOp[reg] =>
                  /\ last'.old = before[last'.user]
                  /\ nm' = nm /\ pm' = pm /\ cm' = cm
             /\ \A u \in Users : (before[u] = None /\ after[u] # None) =>
                  /\ last'.user = u
                  /\ last'.op = AttachOp[reg] \/ (reg = "cart" /\ last'.op = "add_to_cart")]_vars

\* C15 witness: a payment account was attached over a different one while
\* the other user's account stayed
C15_Witness ==
    /\ last.op = "attach_payment"
    /\ last.old # None /\ last.old # last.arg
    /\ pm[last.user] = last.arg
    /\ \E v \in Users \ {last.user} : pm[v] # None /\ pm[v] # last.arg

\* C16: a cart stays attached once created, also when it is emptied; a
\* process_order call on an attached empty cart (restaurant known, account
\* attached) fails neither with OrderError nor with PaymentError, pays 0 so
\* that every balance is unchanged, and claims an available located rider
\* when the pool has one.
C16_EmptyCartOrder ==
    [][/\ \A u \in Users : cm[u] # None => cm'[u] # None
       /\ (IsOrder /\ cm[last'.user] = Some(EmptyCart)
             /\ restaurants["r1"] # None /\ pm[last'.user] # None) =>
            /\ last'.result \notin {"OrderError", "PaymentError"}
            /\ pm' = pm
            /\ (\E i \in 1..Len(riders) : Eligible(riders, i)) =>
                 /\ last'.rider \in 1..Len(riders)
                 /\ Eligible(riders, last'.rider)
                 /\ ~riders'[last'.rider].is_available]_vars

\* C16 witness: an order on an attached empty cart claimed a rider (the cart
\* is as the call found it, since the call stopped at the notification)
C16_Witness ==
    /\ last.op = "process_order" /\ last.result = "NotificationError"
    /\ cm[last.user] = Some(EmptyCart)
    /\ last.rider # 0 /\ ~riders[last.rider].is_available
    /\ pm[last.user] = Some(0)

\* a rider is unavailable exactly when its target is set
TargetIffUnavailable ==
    \A i \in 1..Len(riders) : ~riders[i].is_available <=> riders[i].target_location # None

\* C17: a rider is unavailable if and only if its target is set, the target
\* of the rider a process_order call claims is the location of the user who
\* placed the order, and the target of an unavailable rider never changes.
C17_TargetConsistency ==
    [][/\ TargetIffUnavailable'
       /\ (IsOrder /\ last'.rider # 0) =>
            riders'[last'.rider].target_location = Some(UserLocation(last'.user))
       /\ \A i \in 1..Len(riders) :
            ~riders[i].is_available => riders'[i].target_location = riders[i].target_location]_vars

\* C17 witness: each user claimed a rider, and the later claim was user 2's
C17_Witness ==
    /\ last.op = "process_order" /\ last.user = 2 /\ last.rider # 0
    /\ riders[last.rider].target_location = Some(<<1, 3>>)
    /\ \E i \in 1..Len(riders) :
          i # last.rider /\ claimed[i] = <<1>> /\ riders[i].target_location = Some(<<1, 2>>)

\* C18: a process_order or add_to_cart call for one user leaves every other
\* user's cart, balance and channel as they were, and the catalog too;
\* add_to_cart changes nothing but the user's cart; process_order lowers the
\* user's balance by the bill once or not at all.
C18_Isolation ==
    [][last'.op \in {"process_order", "add_to_cart"} =>
        LET u == last'.user
        IN  /\ \A v \in Users \ {u} : cm'[v] = cm[v] /\ pm'[v] = pm[v] /\ nm'[v] = nm[v]
            /\ nm' = nm /\ restaurants' = restaurants
            /\ last'.op = "add_to_cart" => (pm' = pm /\ riders' = riders /\ claimed' = claimed)
            /\ IsOrder =>
                 \/ pm'[u] = pm[u]
                 \/ /\ pm[u] # None /\ cm[u] # None /\ restaurants["r1"] # None
                    /\ pm'[u] = Some(pm[u][1] - Bill(cm[u][1], restaurants["r1"][1]))]_vars

\* C18 witness: a user's order claimed a rider while the other user held a
\* non-empty cart, a balance and a channel
C18_Witness ==
    /\ last.op = "process_order" /\ last.rider # 0
    /\ \E v \in Users \ {last.user} :
          /\ cm[v] # None /\ cm[v][1] # EmptyCart
          /\ pm[v] # None /\ pm[v][1] > 0
          /\ nm[v] # None
====
